---------------------------- MODULE Spec2Model ----------------------------
(***************************************************************************)
(* A model of three units of beartype:                                     *)
(*                                                                         *)
(*  - get_cause_or_none_annotated, the cause sleuth of PEP 593 metahints    *)
(*    (beartype/_decor/_code/_pep/_error/_peperrorannotated.py), stepped    *)
(*    through its class test and its loop over the metadata;                *)
(*  - get_func_filename_or_none and is_func_file                            *)
(*    (beartype/_util/func/utilfuncfile.py), called against a linecache     *)
(*    cache that the rest of the process fills and empties;                 *)
(*  - _init of beartype/_data/cls/datacls.py, which computes TYPES_BUILTIN  *)
(*    from the builtins namespace.                                          *)
(*                                                                         *)
(* Each unit has a specification of its own (SpecAnnotated, SpecFile,       *)
(* SpecInit); the variables of the other units are left as they are.        *)
(***************************************************************************)
EXTENDS Integers, Sequences, FiniteSets, TLC

VARIABLES
    \* ---- get_cause_or_none_annotated ----
    sleuth,       \* the CauseSleuth passed by the caller
    pc,           \* position in get_cause_or_none_annotated
    i,            \* 1-based index of the metadatum the loop is at
    result,       \* how the call ended: pending, None, a cause, an exception
    child,        \* the permuted sleuth handed to get_cause_or_none_type
    checked,      \* indices tested with isinstance(..., SubscriptedIs), in order
    evaluated,    \* indices whose is_valid() was invoked, in order
    \* ---- utilfuncfile ----
    linecache_cache,  \* the keys of linecache.cache
    fn,           \* the function called last
    func,         \* its argument
    ret,          \* what it returned
    prev,         \* the previous get_func_filename_or_none result on the same callable
    fresh,        \* TRUE while linecache is as it was when the last call returned
    \* ---- datacls ----
    BUILTIN_NAME_TO_TYPE,  \* builtins.__dict__
    TYPES_BUILTIN,         \* the module global
    datacls_state          \* importing (before line 176), initialized, rebound

varsA == <<sleuth, pc, i, result, child, checked, evaluated>>
varsF == <<linecache_cache, fn, func, ret, prev, fresh>>
varsI == <<BUILTIN_NAME_TO_TYPE, TYPES_BUILTIN, datacls_state>>
vars == <<sleuth, pc, i, result, child, checked, evaluated,
          linecache_cache, fn, func, ret, prev, fresh,
          BUILTIN_NAME_TO_TYPE, TYPES_BUILTIN, datacls_state>>

\* ------------------------------------------------------------------ bounds

\* Longest metadata sequence of an Annotated[...] hint.
MaxMeta == 3

\* Longest co_filename of a code object, in characters.
MaxNameLen == 2

\* Most names bound in the builtins namespace.
MaxBuiltins == 2


\* ------------------------------------------------- values of the sleuth

None == "None"

\* The method resolution order of each class of the model: bool is a subclass
\* of int, as in Python.
Mro(cls) ==
    CASE cls = "bool" -> {"bool", "int", "object"}
      [] cls = "int"  -> {"int", "object"}
      [] cls = "str"  -> {"str", "object"}

\* Piths: -5, 2, 5, True and 's'. val is the integer value (True is 1); the
\* validators below are only ever applied to instances of int.
Piths ==
    { [cls |-> "int",  val |-> 0 - 5],
      [cls |-> "int",  val |-> 2],
      [cls |-> "int",  val |-> 5],
      [cls |-> "bool", val |-> 1],
      [cls |-> "str",  val |-> 0] }

\* isinstance(pith, cls)
IsInstance(pith, cls) == cls \in Mro(pith.cls)

\* The objects that annotate a class: three beartype validators (objects
\* of class SubscriptedIs) and one object that is not a validator.
Validators ==
    { [tag |-> "SubscriptedIs", id |-> "positive"],
      [tag |-> "SubscriptedIs", id |-> "even"],
      [tag |-> "SubscriptedIs", id |-> "small"] }

NonValidators == { [tag |-> "str", id |-> "junk"] }

Metadata == Validators \cup NonValidators

\* isinstance(hint_metadatum, SubscriptedIs)
IsSubscriptedIs(m) == m.tag = "SubscriptedIs"

\* SubscriptedIs.is_valid: the predicate the validator wraps, a total
\* boolean function of the pith.
is_valid(v, pith) ==
    CASE v.id = "positive" -> pith.val > 0
      [] v.id = "even"     -> pith.val % 2 = 0
      [] v.id = "small"    -> pith.val < 3

\* repr(hint_metadatum)
ReprMetadatum(m) ==
    CASE m.id = "positive" -> "Is[lambda x: x > 0]"
      [] m.id = "even"     -> "Is[lambda x: x % 2 == 0]"
      [] m.id = "small"    -> "Is[lambda x: x < 3]"
      [] m.id = "junk"     -> "'junk'"

\* get_cause_object_representation(pith)
get_cause_object_representation(pith) ==
    CASE pith.cls = "bool" -> "True"
      [] pith.cls = "str"  -> "'s'"
      [] pith.val = 0 - 5  -> "-5"
      [] pith.val = 2      -> "2"
      [] pith.val = 5      -> "5"

\* All sequences over S of length at most n.
SeqsUpTo(S, n) == UNION { [1..k -> S] : k \in 0..n }

\* Hints. An ANNOTATED hint carries the annotated class (origin) and the
\* ordered metadata; a plain class used as a hint carries only the class.
HINT_PEP593_SIGN_ANNOTATED == "ANNOTATED"

AnnotatedClasses == {"int", "bool"}

AnnotatedHints ==
    { [sign |-> HINT_PEP593_SIGN_ANNOTATED, origin |-> c, metadata |-> md] :
        c \in AnnotatedClasses, md \in SeqsUpTo(Metadata, MaxMeta) }

ClassHint(cls) == [sign |-> "CLASS", origin |-> cls, metadata |-> <<>>]

get_hint_pep593_type(hint) == hint.origin

get_hint_pep593_metadata(hint) == hint.metadata

ExceptionLabels == {"@beartyped f() parameter x", "@beartyped f() return"}

\* The sleuths get_cause_or_none_annotated is called with: its two
\* assertions hold of each.
Sleuths ==
    { [hint |-> h, pith |-> p, hint_sign |-> h.sign, exception_label |-> l] :
        h \in AnnotatedHints, p \in Piths, l \in ExceptionLabels }

NoSleuth ==
    [hint |-> ClassHint("object"), pith |-> [cls |-> "str", val |-> 0],
     hint_sign |-> "NONE", exception_label |-> ""]

\* CauseSleuth.permute(hint=...): a new sleuth for another hint, with the
\* pith and the exception label of this one. The sleuth it is called on is
\* left as it is.
permute(s, hint) ==
    [hint |-> hint, pith |-> s.pith, hint_sign |-> hint.sign,
     exception_label |-> s.exception_label]

\* How a call ends. value is the sequence of the fragments of the string
\* returned or of the exception message.
Pending == [kind |-> "pending", value |-> <<>>]

ReturnedNone == [kind |-> None, value |-> <<>>]

ReturnedCause(fragments) == [kind |-> "cause", value |-> fragments]

Raised(fragments) ==
    [kind |-> "_BeartypeCallHintPepRaiseException", value |-> fragments]

\* get_cause_or_none_type(sleuth) for a sleuth whose hint is a class.
get_cause_or_none_type(s) ==
    IF IsInstance(s.pith, s.hint.origin)
    THEN ReturnedNone
    ELSE ReturnedCause(<< get_cause_object_representation(s.pith),
                          " not instance of ", s.hint.origin, "." >>)

\* The string of lines 86-89.
CauseViolates(pith, m) ==
    ReturnedCause(<< get_cause_object_representation(pith),
                     " violates data constraint ", ReprMetadatum(m), "." >>)

\* The exception of lines 76-80.
ExceptionNotSubscriptedIs(s, m) ==
    Raised(<< s.exception_label, " PEP 593 type hint ",
              "Annotated[", s.hint.origin, ", ...]", " argument ",
              ReprMetadatum(m),
              " not not subscription of \"beartype.vale.Is*\" class." >>)

\* -------------------------------------- get_cause_or_none_annotated

\* ClassMismatch without the class test's early return: the pith goes on to
\* the validators.
ClassMismatch_FallsThrough ==
    /\ pc = "class"
    /\ ~IsInstance(sleuth.pith, get_hint_pep593_type(sleuth.hint))
    /\ pc' = "loop"
    /\ i' = 1
    /\ UNCHANGED <<sleuth, result, child, checked, evaluated, varsF, varsI>>

\* ClassMismatch with the hint replaced in the caller's sleuth instead of in
\* a permuted copy.
ClassMismatch_InPlace ==
    /\ pc = "class"
    /\ ~IsInstance(sleuth.pith, get_hint_pep593_type(sleuth.hint))
    /\ sleuth' = permute(sleuth, ClassHint(get_hint_pep593_type(sleuth.hint)))
    /\ child' = sleuth'
    /\ result' = get_cause_or_none_type(child')
    /\ pc' = "done"
    /\ UNCHANGED <<i, checked, evaluated, varsF, varsI>>

\* Lines 61-66: the pith is not an instance of the annotated class.
ClassMismatch ==
    /\ pc = "class"
    /\ ~IsInstance(sleuth.pith, get_hint_pep593_type(sleuth.hint))
    /\ child' = permute(sleuth, ClassHint(get_hint_pep593_type(sleuth.hint)))
    /\ result' = get_cause_or_none_type(child')
    /\ pc' = "done"
    /\ UNCHANGED <<sleuth, i, checked, evaluated, varsF, varsI>>

\* Lines 61-67: the pith is an instance of the annotated class.
ClassMatch ==
    /\ pc = "class"
    /\ IsInstance(sleuth.pith, get_hint_pep593_type(sleuth.hint))
    /\ pc' = "loop"
    /\ i' = 1
    /\ UNCHANGED <<sleuth, result, child, checked, evaluated, varsF, varsI>>

\* Lines 70-80: the next metadatum is not a SubscriptedIs.
MetadatumNotSubscriptedIs ==
    /\ pc = "loop"
    /\ i <= Len(get_hint_pep593_metadata(sleuth.hint))
    /\ LET hint_metadatum == get_hint_pep593_metadata(sleuth.hint)[i] IN
        /\ ~IsSubscriptedIs(hint_metadatum)
        /\ checked' = Append(checked, i)
        /\ result' = ExceptionNotSubscriptedIs(sleuth, hint_metadatum)
    /\ pc' = "done"
    /\ UNCHANGED <<sleuth, i, child, evaluated, varsF, varsI>>

\* ValidatorRejects naming the last metadatum instead of the current one.
ValidatorRejects_NamesLast ==
    /\ pc = "loop"
    /\ i <= Len(get_hint_pep593_metadata(sleuth.hint))
    /\ LET metadata == get_hint_pep593_metadata(sleuth.hint)
           hint_metadatum == metadata[i]
       IN
        /\ IsSubscriptedIs(hint_metadatum)
        /\ ~is_valid(hint_metadatum, sleuth.pith)
        /\ checked' = Append(checked, i)
        /\ evaluated' = Append(evaluated, i)
        /\ result' = CauseViolates(sleuth.pith, metadata[Len(metadata)])
    /\ pc' = "done"
    /\ UNCHANGED <<sleuth, i, child, varsF, varsI>>

\* ValidatorRejects keeping the cause and going on to the next metadatum.
ValidatorRejects_Continues ==
    /\ pc = "loop"
    /\ i <= Len(get_hint_pep593_metadata(sleuth.hint))
    /\ LET hint_metadatum == get_hint_pep593_metadata(sleuth.hint)[i] IN
        /\ IsSubscriptedIs(hint_metadatum)
        /\ ~is_valid(hint_metadatum, sleuth.pith)
        /\ checked' = Append(checked, i)
        /\ evaluated' = Append(evaluated, i)
        /\ result' = CauseViolates(sleuth.pith, hint_metadatum)
    /\ i' = i + 1
    /\ UNCHANGED <<sleuth, pc, child, varsF, varsI>>

\* Lines 70-89: the next metadatum is a validator that rejects the pith.
ValidatorRejects ==
    /\ pc = "loop"
    /\ i <= Len(get_hint_pep593_metadata(sleuth.hint))
    /\ LET hint_metadatum == get_hint_pep593_metadata(sleuth.hint)[i] IN
        /\ IsSubscriptedIs(hint_metadatum)
        /\ ~is_valid(hint_metadatum, sleuth.pith)
        /\ checked' = Append(checked, i)
        /\ evaluated' = Append(evaluated, i)
        /\ result' = CauseViolates(sleuth.pith, hint_metadatum)
    /\ pc' = "done"
    /\ UNCHANGED <<sleuth, i, child, varsF, varsI>>

\* ValidatorAccepts returning None at the first validator that accepts.
ValidatorAccepts_ReturnsNone ==
    /\ pc = "loop"
    /\ i <= Len(get_hint_pep593_metadata(sleuth.hint))
    /\ LET hint_metadatum == get_hint_pep593_metadata(sleuth.hint)[i] IN
        /\ IsSubscriptedIs(hint_metadatum)
        /\ is_valid(hint_metadatum, sleuth.pith)
        /\ checked' = Append(checked, i)
        /\ evaluated' = Append(evaluated, i)
    /\ result' = ReturnedNone
    /\ pc' = "done"
    /\ UNCHANGED <<sleuth, i, child, varsF, varsI>>

\* Lines 70-91: the next metadatum is a validator that accepts the pith.
ValidatorAccepts ==
    /\ pc = "loop"
    /\ i <= Len(get_hint_pep593_metadata(sleuth.hint))
    /\ LET hint_metadatum == get_hint_pep593_metadata(sleuth.hint)[i] IN
        /\ IsSubscriptedIs(hint_metadatum)
        /\ is_valid(hint_metadatum, sleuth.pith)
        /\ checked' = Append(checked, i)
        /\ evaluated' = Append(evaluated, i)
    /\ i' = i + 1
    /\ UNCHANGED <<sleuth, pc, result, child, varsF, varsI>>

\* Lines 70 and 96: the metadata is exhausted.
MetadataExhausted ==
    /\ pc = "loop"
    /\ i > Len(get_hint_pep593_metadata(sleuth.hint))
    /\ result' = ReturnedNone
    /\ pc' = "done"
    /\ UNCHANGED <<sleuth, i, child, checked, evaluated, varsF, varsI>>

NextAnnotated ==
    \/ ClassMismatch
    \/ ClassMatch
    \/ MetadatumNotSubscriptedIs
    \/ ValidatorRejects
    \/ ValidatorAccepts
    \/ MetadataExhausted


\* ------------------------------------------------------- utilfuncfile

\* Filenames are sequences of characters.
Chars == {"<", ">", "a"}

Filenames == SeqsUpTo(Chars, MaxNameLen)

\* Optional[str]: None, or a string.
NoneStr == [kind |-> None, str |-> <<>>, bool |-> FALSE]

Str(f) == [kind |-> "str", str |-> f, bool |-> FALSE]

Bool(b) == [kind |-> "bool", str |-> <<>>, bool |-> b]

NoCall == [kind |-> "nocall", str |-> <<>>, bool |-> FALSE]

\* Callables, by what get_func_codeobj_or_none() and getattr(..., 'co_filename',
\* None) find: no code object (a C-based callable), a code object without
\* co_filename (a PyPy builtin), or a code object with a co_filename.
Funcs ==
    { [has_codeobj |-> FALSE, has_co_filename |-> FALSE, co_filename |-> <<>>],
      [has_codeobj |-> TRUE,  has_co_filename |-> FALSE, co_filename |-> <<>>] }
    \cup
    { [has_codeobj |-> TRUE, has_co_filename |-> TRUE, co_filename |-> f] :
        f \in Filenames }

NoFunc == [has_codeobj |-> FALSE, has_co_filename |-> FALSE, co_filename |-> <<>>]

\* A "<"- and ">"-bracketed placeholder: lines 154-155, func_filename[0] and
\* func_filename[-1] of a non-empty string.
IsPlaceholder(f) == f # <<>> /\ f[1] = "<" /\ f[Len(f)] = ">"

\* The keys the rest of the process puts in linecache.cache: the placeholder
\* filenames (beartype caches the source of the callables it makes under
\* such names) and the name of one file on disk.
LinecacheKeys == { f \in Filenames : IsPlaceholder(f) } \cup { <<"a">> }

\* get_func_filename_or_none without the linecache test of line 158: every
\* placeholder filename gives None.
get_func_filename_or_none_NoLinecache(f, cache) ==
    IF ~f.has_codeobj
    THEN NoneStr
    ELSE LET func_filename ==
                 IF f.has_co_filename THEN Str(f.co_filename) ELSE NoneStr
         IN  IF \/ func_filename.kind = None
                \/ func_filename.str = <<>>
                \/ /\ func_filename.str[1] = "<"
                   /\ func_filename.str[Len(func_filename.str)] = ">"
             THEN NoneStr
             ELSE func_filename

\* get_func_filename_or_none(func), lines 125-171, reading linecache.cache.
get_func_filename_or_none(f, cache) ==
    IF ~f.has_codeobj
    THEN NoneStr
    ELSE LET func_filename ==
                 IF f.has_co_filename THEN Str(f.co_filename) ELSE NoneStr
         IN  IF \/ func_filename.kind = None
                \/ func_filename.str = <<>>
                \/ /\ func_filename.str[1] = "<"
                   /\ func_filename.str[Len(func_filename.str)] = ">"
                   /\ func_filename.str \notin cache
             THEN NoneStr
             ELSE func_filename

\* is_func_file(func), line 66.
is_func_file(f, cache) == Bool(get_func_filename_or_none(f, cache) # NoneStr)

\* Call_get_func_filename_or_none answering a repeated call on the same
\* callable with the result of the call before (a memoized getter).
Call_get_func_filename_or_none_Memoized(f) ==
    /\ ret' = IF fn = "get_func_filename_or_none" /\ func = f
              THEN ret
              ELSE get_func_filename_or_none(f, linecache_cache)
    /\ prev' = IF fn = "get_func_filename_or_none" /\ func = f THEN ret ELSE NoCall
    /\ fn' = "get_func_filename_or_none"
    /\ func' = f
    /\ fresh' = TRUE
    /\ UNCHANGED <<linecache_cache, varsA, varsI>>

\* A call of get_func_filename_or_none(f).
Call_get_func_filename_or_none(f) ==
    /\ ret' = get_func_filename_or_none(f, linecache_cache)
    /\ prev' = IF fn = "get_func_filename_or_none" /\ func = f THEN ret ELSE NoCall
    /\ fn' = "get_func_filename_or_none"
    /\ func' = f
    /\ fresh' = TRUE
    /\ UNCHANGED <<linecache_cache, varsA, varsI>>

\* A call of is_func_file(f).
Call_is_func_file(f) ==
    /\ ret' = is_func_file(f, linecache_cache)
    /\ prev' = NoCall
    /\ fn' = "is_func_file"
    /\ func' = f
    /\ fresh' = TRUE
    /\ UNCHANGED <<linecache_cache, varsA, varsI>>

\* The rest of the process caches source code under a key ...
LinecacheInsert(k) ==
    /\ k \notin linecache_cache
    /\ linecache_cache' = linecache_cache \cup {k}
    /\ fresh' = FALSE
    /\ UNCHANGED <<fn, func, ret, prev, varsA, varsI>>

\* ... and drops it (linecache.clearcache, linecache.checkcache).
LinecacheRemove(k) ==
    /\ k \in linecache_cache
    /\ linecache_cache' = linecache_cache \ {k}
    /\ fresh' = FALSE
    /\ UNCHANGED <<fn, func, ret, prev, varsA, varsI>>

NextFile ==
    \/ \E f \in Funcs : Call_get_func_filename_or_none(f)
    \/ \E f \in Funcs : Call_is_func_file(f)
    \/ \E k \in LinecacheKeys : LinecacheInsert(k)
    \/ \E k \in LinecacheKeys : LinecacheRemove(k)

\* ------------------------------------------------------------ datacls

\* Attribute names of the builtins module, as sequences of characters.
BuiltinNames ==
    { <<"i", "n", "t">>,
      <<"s", "t", "r">>,
      <<"l", "e", "n">>,
      <<"_">>,
      <<"_", "_">>,
      <<"_", "_", "x">>,
      <<"x", "_", "_">>,
      <<"_", "_", "l", "o", "a", "d", "e", "r", "_", "_">> }

\* Objects bound in it: three types, a function and a string.
BuiltinValues ==
    { [id |-> "int", is_type |-> TRUE],
      [id |-> "str", is_type |-> TRUE],
      [id |-> "BuiltinImporter", is_type |-> TRUE],
      [id |-> "len", is_type |-> FALSE],
      [id |-> "'builtins'", is_type |-> FALSE] }

\* The namespaces: functions from at most MaxBuiltins names to objects.
Namespaces ==
    UNION { [names -> BuiltinValues] :
              names \in { n \in SUBSET BuiltinNames : Cardinality(n) <= MaxBuiltins } }

EmptyNamespace == [n \in {} |-> NoFunc]

\* str.startswith('__') and str.endswith('__')
startswith__(name) == Len(name) >= 2 /\ name[1] = "_" /\ name[2] = "_"

endswith__(name) ==
    Len(name) >= 2 /\ name[Len(name) - 1] = "_" /\ name[Len(name)] = "_"

\* isinstance(builtin_value, type)
IsType(v) == v.is_type

\* The global is None or a frozenset.
NoneSet == [kind |-> None, set |-> {}]

FrozenSet(S) == [kind |-> "frozenset", set |-> S]

\* BuiltinTypes without the dunder test of lines 167-170.
BuiltinTypes_WithDunders(ns) ==
    FrozenSet({ ns[builtin_name] : builtin_name \in
                  { n \in DOMAIN ns : IsType(ns[n]) } })

\* The frozenset of lines 157-172 over a namespace.
BuiltinTypes(ns) ==
    FrozenSet({ ns[builtin_name] : builtin_name \in
                  { n \in DOMAIN ns :
                      /\ IsType(ns[n])
                      /\ ~(startswith__(n) /\ endswith__(n)) } })

\* _init(), lines 145-172, as line 176 or a later caller runs it.
_init ==
    /\ TYPES_BUILTIN' = BuiltinTypes(BUILTIN_NAME_TO_TYPE)
    /\ datacls_state' = "initialized"
    /\ UNCHANGED <<BUILTIN_NAME_TO_TYPE, varsA, varsF>>

\* Code elsewhere in the process binds a name of builtins to an object, after
\* the module was imported (what builtins holds before is InitDatacls's choice).
BuiltinsBind(name, value) ==
    /\ datacls_state # "importing"
    /\ \/ name \in DOMAIN BUILTIN_NAME_TO_TYPE
       \/ Cardinality(DOMAIN BUILTIN_NAME_TO_TYPE) < MaxBuiltins
    /\ BUILTIN_NAME_TO_TYPE' =
         [n \in DOMAIN BUILTIN_NAME_TO_TYPE \cup {name} |->
            IF n = name THEN value ELSE BUILTIN_NAME_TO_TYPE[n]]
    /\ BUILTIN_NAME_TO_TYPE' # BUILTIN_NAME_TO_TYPE
    /\ datacls_state' = "rebound"
    /\ UNCHANGED <<TYPES_BUILTIN, varsA, varsF>>

NextInit ==
    \/ _init
    \/ \E name \in BuiltinNames, value \in BuiltinValues :
         BuiltinsBind(name, value)

\* ------------------------------------------------------ specifications

\* Each Init gives the unit it runs its state on entry and leaves the other
\* units in one fixed state.

\* get_cause_or_none_annotated on entry, after the assertions of lines 56-58.
InitAnnotated ==
    /\ sleuth \in Sleuths
    /\ pc = "class"
    /\ i = 0
    /\ result = Pending
    /\ child = NoSleuth
    /\ checked = <<>>
    /\ evaluated = <<>>
    /\ linecache_cache = {}
    /\ fn = "none"
    /\ func = NoFunc
    /\ ret = NoCall
    /\ prev = NoCall
    /\ fresh = FALSE
    /\ BUILTIN_NAME_TO_TYPE = EmptyNamespace
    /\ TYPES_BUILTIN = NoneSet
    /\ datacls_state = "importing"

\* utilfuncfile before any call, linecache.cache empty.
InitFile ==
    /\ sleuth = NoSleuth
    /\ pc = "idle"
    /\ i = 0
    /\ result = Pending
    /\ child = NoSleuth
    /\ checked = <<>>
    /\ evaluated = <<>>
    /\ linecache_cache = {}
    /\ fn = "none"
    /\ func = NoFunc
    /\ ret = NoCall
    /\ prev = NoCall
    /\ fresh = FALSE
    /\ BUILTIN_NAME_TO_TYPE = EmptyNamespace
    /\ TYPES_BUILTIN = NoneSet
    /\ datacls_state = "importing"

\* datacls before line 176 runs: TYPES_BUILTIN = None (line 115).
InitDatacls ==
    /\ sleuth = NoSleuth
    /\ pc = "idle"
    /\ i = 0
    /\ result = Pending
    /\ child = NoSleuth
    /\ checked = <<>>
    /\ evaluated = <<>>
    /\ linecache_cache = {}
    /\ fn = "none"
    /\ func = NoFunc
    /\ ret = NoCall
    /\ prev = NoCall
    /\ fresh = FALSE
    /\ BUILTIN_NAME_TO_TYPE \in Namespaces
    /\ TYPES_BUILTIN = NoneSet
    /\ datacls_state = "importing"

SpecAnnotated == InitAnnotated /\ [][NextAnnotated]_vars

SpecFile == InitFile /\ [][NextFile]_vars

SpecInit == InitDatacls /\ [][NextInit]_vars


\* ------------------------------------------------------------- claims
\* What the claims speak of, stated from the caller's side.

\* The metadata and the annotated class of the hint the sleuth was called on.
TheMetadata == sleuth.hint.metadata

TheClass == sleuth.hint.origin

PithIsInstance == TheClass \in Mro(sleuth.pith.cls)

\* Entry k is a validator, and one that rejects (accepts) the pith.
IsValidator(k) == TheMetadata[k].tag = "SubscriptedIs"

Rejects(k) == IsValidator(k) /\ ~is_valid(TheMetadata[k], sleuth.pith)

Accepts(k) == IsValidator(k) /\ is_valid(TheMetadata[k], sleuth.pith)

Indices == 1..Len(TheMetadata)

OnlyValidators == \A k \in Indices : IsValidator(k)

\* The smallest index of S, a non-empty set of indices.
Least(S) == CHOOSE k \in S : \A j \in S : k <= j

\* The fragments of a result's string.
Fragments(r) == { r.value[k] : k \in 1..Len(r.value) }

IsViolatesCause(r) == r.kind = "cause" /\ " violates data constraint " \in Fragments(r)

\* C1: for a hint whose metadata holds only validators (none included), the
\* call returns None exactly when the pith is an instance of the annotated
\* class and every validator accepts it, and returns a cause string otherwise.
C1_ConsistencyLaw ==
    (pc = "done" /\ OnlyValidators) =>
        /\ result.kind \in {None, "cause"}
        /\ result.kind = None <=>
             (PithIsInstance /\ \A k \in Indices : Accepts(k))

\* The spec's scenario next to a second validator: Annotated[int, x > 0,
\* x < 3] and the pith 2 end with None.
C1_Witness ==
    /\ pc = "done"
    /\ TheClass = "int"
    /\ Len(TheMetadata) = 2
    /\ TheMetadata[1].id = "positive"
    /\ TheMetadata[2].id = "small"
    /\ sleuth.pith.val = 2
    /\ result = ReturnedNone

\* C2: when the pith is an instance of the annotated class and some validator
\* rejects it, a cause string returned names the representation of the
\* rejecting validator of smallest index, and of no other rejecting validator
\* (the same validator declared twice has one representation); and a cause
\* string is returned whenever no entry before that validator is malformed.
C2_FirstFailure ==
    (pc = "done" /\ PithIsInstance /\ \E k \in Indices : Rejects(k)) =>
        LET first == Least({ k \in Indices : Rejects(k) }) IN
        /\ result.kind = "cause" =>
             /\ IsViolatesCause(result)
             /\ result.value[3] = ReprMetadatum(TheMetadata[first])
             /\ \A k \in Indices :
                  (Rejects(k) /\ TheMetadata[k] # TheMetadata[first]) =>
                     result.value[3] # ReprMetadatum(TheMetadata[k])
        /\ (\A j \in 1..(first - 1) : IsValidator(j)) => result.kind = "cause"

\* [v1, v2, v3] with v1 accepting and v2, v3 rejecting: the cause names v2.
C2_Witness ==
    /\ pc = "done"
    /\ Len(TheMetadata) = 3
    /\ Accepts(1) /\ Rejects(2) /\ Rejects(3)
    /\ TheMetadata[2] # TheMetadata[3]
    /\ result.kind = "cause"
    /\ result.value[3] = ReprMetadatum(TheMetadata[2])

\* C3: when the pith is not an instance of the annotated class, the call
\* returns what get_cause_or_none_type returns on a sleuth whose hint is the
\* annotated class and whose pith and exception label are the caller's; that
\* is a cause, and never a 'violates data constraint' one.
C3_ClassMismatchFirst ==
    (pc = "done" /\ ~PithIsInstance) =>
        /\ child = [hint |-> ClassHint(TheClass),
                    pith |-> sleuth.pith,
                    hint_sign |-> "CLASS",
                    exception_label |-> sleuth.exception_label]
        /\ result = get_cause_or_none_type(child)
        /\ result.kind = "cause"
        /\ ~IsViolatesCause(result)

\* The string 's' against Annotated[int, ...] with a validator that would
\* reject it and one that is malformed.
C3_Witness ==
    /\ pc = "done"
    /\ ~PithIsInstance
    /\ sleuth.pith.cls = "str"
    /\ \E k \in Indices : Rejects(k)
    /\ \E k \in Indices : ~IsValidator(k)
    /\ result.kind = "cause"

\* C4, as claimed: a hint whose metadata holds an entry that is not a
\* SubscriptedIs, at any position, makes the call raise
\* _BeartypeCallHintPepRaiseException for every pith.
C4_MalformedAlwaysRaises ==
    (pc = "done" /\ \E k \in Indices : ~IsValidator(k)) =>
        result.kind = "_BeartypeCallHintPepRaiseException"

\* C5: no step of the call changes the caller's sleuth: its hint (with the
\* metadata and the validators), its pith, its sign, its exception label.
C5_NoSideEffects == [][sleuth' = sleuth]_vars

\* The class-mismatch branch has run on a permuted sleuth, and the caller's
\* still holds the ANNOTATED hint.
C5_Witness ==
    /\ pc = "done"
    /\ child # NoSleuth
    /\ child.hint # sleuth.hint
    /\ sleuth.hint_sign = HINT_PEP593_SIGN_ANNOTATED
    /\ sleuth \in Sleuths

\* C9: the entries are visited in declared order, each visited validator's
\* is_valid is invoked once, nothing is visited after the first rejecting
\* validator or malformed entry, and nothing at all when the pith is not an
\* instance of the annotated class.
C9_EvaluationOrder ==
    LET n == Len(checked)
        e == Len(evaluated)
        Stops == { k \in Indices : ~Accepts(k) }
    IN
    /\ checked = [k \in 1..n |-> k]
    /\ evaluated = [k \in 1..e |-> k]
    /\ n <= Len(TheMetadata)
    /\ \A k \in 1..n : k <= e <=> IsValidator(k)
    /\ \A k \in 1..(n - 1) : Accepts(k)
    /\ ~PithIsInstance => n = 0 /\ e = 0
    /\ (pc = "done" /\ PithIsInstance) =>
          n = IF Stops = {} THEN Len(TheMetadata) ELSE Least(Stops)

\* [v1, junk, v3] with v1 accepting: v1 is evaluated, junk is type-checked,
\* v3 is neither.
C9_Witness ==
    /\ pc = "done"
    /\ Len(TheMetadata) = 3
    /\ Accepts(1) /\ ~IsValidator(2) /\ Rejects(3)
    /\ checked = <<1, 2>>
    /\ evaluated = <<1>>

\* A filename that starts with "<" and ends with ">".
Bracketed(f) == Len(f) >= 1 /\ Head(f) = "<" /\ f[Len(f)] = ">"

\* The callable of the last call is one defined in memory.
FuncInMemory ==
    func.has_codeobj /\ func.has_co_filename /\ Bracketed(func.co_filename)

\* C6, as claimed: for a callable whose filename is a bracketed placeholder,
\* get_func_filename_or_none returns None and is_func_file returns False,
\* whatever linecache holds.
C6_InMemoryIsNeverFile ==
    FuncInMemory =>
        /\ fn = "get_func_filename_or_none" => ret = NoneStr
        /\ fn = "is_func_file" => ret = Bool(FALSE)

Dunder(name) ==
    /\ Len(name) >= 2
    /\ SubSeq(name, 1, 2) = <<"_", "_">>
    /\ SubSeq(name, Len(name) - 1, Len(name)) = <<"_", "_">>

\* The types bound in builtins under a name that is not a dunder name.
NonDunderTypes ==
    { v \in BuiltinValues :
        /\ v.is_type
        /\ \E name \in DOMAIN BUILTIN_NAME_TO_TYPE :
             BUILTIN_NAME_TO_TYPE[name] = v /\ ~Dunder(name) }

\* C7: once _init has run TYPES_BUILTIN is never None; while builtins is as
\* _init read it, TYPES_BUILTIN is the set of its types bound under a name
\* that is not a dunder name; and _init run again on it gives an equal set.
C7_TypesBuiltin ==
    /\ [](datacls_state # "importing" => TYPES_BUILTIN.kind # None)
    /\ [](datacls_state = "initialized" =>
            TYPES_BUILTIN = FrozenSet(NonDunderTypes))
    /\ [][(datacls_state = "initialized" /\ datacls_state' = "initialized")
            => TYPES_BUILTIN' = TYPES_BUILTIN]_vars

\* After _init: a type bound only under a dunder name is left out, and one
\* bound under another name is in.
C7_Witness ==
    /\ datacls_state = "initialized"
    /\ TYPES_BUILTIN.set # {}
    /\ \E name \in DOMAIN BUILTIN_NAME_TO_TYPE :
         /\ Dunder(name)
         /\ BUILTIN_NAME_TO_TYPE[name].is_type
         /\ BUILTIN_NAME_TO_TYPE[name] \notin TYPES_BUILTIN.set

=============================================================================
